---- MODULE Spec2Model ----
(***************************************************************************)
(* Model of the home_server registry and dispatch subsystem                *)
(* (src/src/bin/server.rs): the persisted Device and Actionner registries, *)
(* the live Handler map, the two tokio mutexes of HomeServer and the five  *)
(* RPC handlers, each cut at its await points.                             *)
(***************************************************************************)
EXTENDS Integers, Sequences, FiniteSets, TLC

\* ---------------------------------------------------------------- bounds
\* ids are allocated while the counter is below MaxId
MaxId == 2
\* successful adds recorded per registry over the lifetime of the stores
MaxIssued == 3

\* the request tasks the runtime serves concurrently
Tasks == {1, 2}
Ids == 0..(MaxId - 1)
NoTask == 0
Remotes == {"r1", "r2"}

\* ---------------------------------------------------------------- state
VARIABLES
    phase,               \* main(): "down", "act_opened", "opened", "serving", "open_hung"
    actionner_data,      \* Actionners.actionner_data: persisted id -> ActionnerData
    actionners,          \* Actionners.actionners: live id -> Actionner (its handler)
    actionners_next_id,  \* Actionners.next_id_to_assign
    devices,             \* Devices.devices: persisted id -> Object
    devices_next_id,     \* Devices.next_id_to_assign
    actionners_lock,     \* holder of HomeServer.actionners' mutex, NoTask when free
    devices_lock,        \* holder of HomeServer.devices' mutex, NoTask when free
    pc,                  \* position of each request task
    req,                 \* the request each task serves
    local,               \* locals of each task (allocated id, parsed id, copied Object)
    res,                 \* the reply of each task
    last_open,           \* history: what the last open scanned and decided
    recording,           \* whether the two histories below are kept (HistSpec)
    clients,             \* the requests the clients of the server send
    act_issued,          \* history: ids returned by successful Actionners::add, in order
    dev_issued,          \* history: ids returned by successful Devices::add, in order
    wire                 \* history: the connections each task's request has made

vars == <<phase, actionner_data, actionners, actionners_next_id, devices,
          devices_next_id, actionners_lock, devices_lock, pc, req, local, res,
          last_open, recording, clients, act_issued, dev_issued, wire>>

registries == <<actionner_data, actionners, actionners_next_id, devices, devices_next_id>>
locks == <<actionners_lock, devices_lock>>
tasks == <<pc, req, local, res>>
history == <<recording, clients, act_issued, dev_issued, wire>>

\* ---------------------------------------------------------------- helpers
EmptyMap == [k \in {} |-> 0]
Restrict(f, S) == [k \in S |-> f[k]]
Put(f, k, v) == [x \in (DOMAIN f) \cup {k} |-> IF x = k THEN v ELSE f[x]]
Max(S) == CHOOSE x \in S : \A y \in S : y <= x
Min(S) == CHOOSE x \in S : \A y \in S : x <= y
NoReq == [op |-> "none"]
NoRes == [op |-> "none", status |-> "none", val |-> 0]
NoLocal == [id |-> 0, obj |-> <<>>, command |-> "none"]
NoOpen == [done |-> FALSE, act_scanned |-> {}, act_failed |-> {},
           dev_scanned |-> [k \in {} |-> 0], known |-> {}]

\* ---------------------------------------------------------------- objects/mod.rs
\* str::to_lowercase on the names a client sends
to_lowercase(s) ==
    CASE s = "Arduino" -> "arduino"
      [] s = "SSH" -> "ssh"
      [] s = "LED" -> "led"
      [] OTHER -> s

\* impl FromStr for Protocol
Protocol_from_str(s) ==
    CASE to_lowercase(s) = "arduino" -> [ok |-> TRUE, v |-> "Arduino"]
      [] to_lowercase(s) = "ssh" -> [ok |-> TRUE, v |-> "SSH"]
      [] OTHER -> [ok |-> FALSE, v |-> "unknown protocol"]

\* faulty variant: every kind name is taken for an LED
ObjectKind_from_str_lenient(s) == [ok |-> TRUE, v |-> "LED"]

\* impl FromStr for ObjectKind
ObjectKind_from_str(s) ==
    CASE to_lowercase(s) = "led" -> [ok |-> TRUE, v |-> "LED"]
      [] OTHER -> [ok |-> FALSE, v |-> "unknown object kind"]

\* str::parse::<i8>: optional sign, then decimal digits, value in -128..127
Digit(c) ==
    CASE c = "0" -> 0 [] c = "1" -> 1 [] c = "2" -> 2 [] c = "3" -> 3 [] c = "4" -> 4
      [] c = "5" -> 5 [] c = "6" -> 6 [] c = "7" -> 7 [] c = "8" -> 8 [] c = "9" -> 9
      [] OTHER -> -1

RECURSIVE DigitsValue(_, _)
DigitsValue(s, acc) ==
    IF s = <<>> THEN acc
    ELSE IF Digit(Head(s)) < 0 \/ acc < 0 THEN -1
    ELSE DigitsValue(Tail(s), 10 * acc + Digit(Head(s)))

parse_i8(s) ==
    LET neg == s # <<>> /\ Head(s) = "-"
        signed == s # <<>> /\ Head(s) \in {"-", "+"}
        digits == IF signed THEN Tail(s) ELSE s
        mag == IF digits = <<>> THEN -1 ELSE DigitsValue(digits, 0)
        val == IF neg THEN 0 - mag ELSE mag
    IN  IF mag < 0 \/ val < -128 \/ val > 127
        THEN [ok |-> FALSE, v |-> 0]
        ELSE [ok |-> TRUE, v |-> val]

\* ---------------------------------------------------------------- commands/mod.rs
\* bincode::deserialize::<ArduinoCommand>: u32 little-endian variant index, then
\* the fields of the variant
deserialize_command(bytes) ==
    IF Len(bytes) < 4 \/ bytes[2] # 0 \/ bytes[3] # 0 \/ bytes[4] # 0
    THEN [ok |-> FALSE, v |-> "none"]
    ELSE CASE bytes[1] = 0 ->
                IF Len(bytes) >= 5 /\ bytes[5] \in {0, 1}
                THEN [ok |-> TRUE, v |-> IF bytes[5] = 1 THEN "SetOn" ELSE "SetOff"]
                ELSE [ok |-> FALSE, v |-> "none"]
           [] bytes[1] = 1 -> [ok |-> TRUE, v |-> "Toggle"]
           [] bytes[1] = 2 -> [ok |-> TRUE, v |-> "Check"]
           [] OTHER -> [ok |-> FALSE, v |-> "none"]

\* impl Display for i8, as format!("{}", id) prints it: a minus sign for a
\* negative value, then the decimal digits without leading zeros
DigitChar(d) ==
    CASE d = 0 -> "0" [] d = 1 -> "1" [] d = 2 -> "2" [] d = 3 -> "3" [] d = 4 -> "4"
      [] d = 5 -> "5" [] d = 6 -> "6" [] d = 7 -> "7" [] d = 8 -> "8" [] OTHER -> "9"

RECURSIVE format_digits(_)
format_digits(n) ==
    IF n < 10 THEN <<DigitChar(n)>>
    ELSE format_digits(n \div 10) \o <<DigitChar(n % 10)>>

format_i8(n) == IF n < 0 THEN <<"-">> \o format_digits(0 - n) ELSE format_digits(n)

\* faulty variant: the two Set arms are exchanged
ArduinoCommand_repr_swapped(command, id) ==
    CASE command = "SetOn" -> <<"o", "f", "f", " ">> \o format_i8(id) \o <<"\n">>
      [] command = "SetOff" -> <<"o", "n", " ">> \o format_i8(id) \o <<"\n">>
      [] command = "Toggle" -> <<"t", "o", "g", " ">> \o format_i8(id) \o <<"\n">>
      [] OTHER -> <<"a", "r", "d", "\n">>

\* ArduinoCommand::repr: the frame of a command, one character per element
ArduinoCommand_repr(command, id) ==
    CASE command = "SetOn" -> <<"o", "n", " ">> \o format_i8(id) \o <<"\n">>
      [] command = "SetOff" -> <<"o", "f", "f", " ">> \o format_i8(id) \o <<"\n">>
      [] command = "Toggle" -> <<"t", "o", "g", " ">> \o format_i8(id) \o <<"\n">>
      [] OTHER -> <<"a", "r", "d", "\n">>

\* ---------------------------------------------------------------- Handler
\* what the remote does during ArduinoHandler::check: it answers "yes\n", it
\* answers "no\n", its first segment is only "ye", the connection or the I/O
\* fails (or the connect times out), or it accepts the connection and never
\* answers
CheckOutcomes == {"yes", "other", "short", "io", "hang"}
\* what the remote does during ArduinoHandler::send
SendOutcomes == {"ok", "io", "hang"}

\* the bytes the one read of check receives
CheckReply(outcome) ==
    CASE outcome = "yes" -> <<"y", "e", "s", "\n">>
      [] outcome = "other" -> <<"n", "o", "\n">>
      [] outcome = "short" -> <<"y", "e">>
      [] OTHER -> <<>>

\* let mut buffer = [0; 16]
BufferLen == 16
\* stream.read(&mut buffer): the bytes received over the zeroed buffer
read_buffer(bytes) ==
    [i \in 1..BufferLen |-> IF i <= Len(bytes) THEN bytes[i] ELSE "NUL"]

\* faulty variant: any two-byte prefix of "yes" is accepted
ArduinoHandler_check_is_yes_lax(buffer) == SubSeq(buffer, 1, 2) = <<"y", "e">>

\* &buffer[0..3] == b"yes"
ArduinoHandler_check_is_yes(buffer) == SubSeq(buffer, 1, 3) = <<"y", "e", "s">>

\* ArduinoHandler::check: Ok(true), Ok(false), Err(io) or never returns
ArduinoHandler_check(outcome) ==
    CASE outcome = "io" -> "Err"
      [] outcome = "hang" -> "hang"
      [] OTHER -> IF ArduinoHandler_check_is_yes(read_buffer(CheckReply(outcome)))
                  THEN "Ok(true)" ELSE "Ok(false)"

\* the connection check makes, as the remote sees it: the frames written and
\* the bytes it sent back to the one read
ArduinoHandler_check_wire(address, outcome) ==
    IF outcome = "io"
    THEN [address |-> address, io |-> "err", written |-> <<>>, reads |-> 0, read |-> <<>>]
    ELSE [address |-> address, io |-> "ok",
          written |-> <<ArduinoCommand_repr("Check", 0)>>,
          reads |-> 1, read |-> CheckReply(outcome)]

\* the connection send makes: one write_all, no read
ArduinoHandler_send_wire(address, command, intern_id, outcome) ==
    IF outcome = "io"
    THEN [address |-> address, io |-> "err", written |-> <<>>, reads |-> 0, read |-> <<>>]
    ELSE [address |-> address, io |-> "ok",
          written |-> <<ArduinoCommand_repr(command, intern_id)>>,
          reads |-> 0, read |-> <<>>]

\* faulty variant: an SSH handler is created without any check
Handler_new_ssh_accepted(protocol, remote, outcome) ==
    IF protocol = "SSH"
    THEN [r |-> "Ok", handler |-> [protocol |-> "SSH", address |-> remote]]
    ELSE CASE ArduinoHandler_check(outcome) = "Err" -> [r |-> "IoError"]
           [] ArduinoHandler_check(outcome) = "hang" -> [r |-> "hang"]
           [] ArduinoHandler_check(outcome) = "Ok(false)" -> [r |-> "Internal"]
           [] OTHER -> [r |-> "Ok", handler |-> [protocol |-> "Arduino", address |-> remote]]

\* Handler::new: the result of creating a handler for (protocol, remote)
Handler_new(protocol, remote, outcome) ==
    IF protocol = "SSH" THEN [r |-> "panic"]
    ELSE CASE ArduinoHandler_check(outcome) = "Err" -> [r |-> "IoError"]
           [] ArduinoHandler_check(outcome) = "hang" -> [r |-> "hang"]
           [] ArduinoHandler_check(outcome) = "Ok(false)" -> [r |-> "Internal"]
           [] OTHER -> [r |-> "Ok", handler |-> [protocol |-> "Arduino", address |-> remote]]

\* Handler::protocol
Handler_protocol(h) == h.protocol

\* ---------------------------------------------------------------- initial state
\* a fresh data directory, the process not started
Fresh ==
    /\ phase = "down"
    /\ actionner_data = EmptyMap
    /\ actionners = EmptyMap
    /\ actionners_next_id = 0
    /\ devices = EmptyMap
    /\ devices_next_id = 0
    /\ actionners_lock = NoTask
    /\ devices_lock = NoTask
    /\ pc = [t \in Tasks |-> "idle"]
    /\ req = [t \in Tasks |-> NoReq]
    /\ local = [t \in Tasks |-> NoLocal]
    /\ res = [t \in Tasks |-> NoRes]
    /\ last_open = NoOpen
    /\ act_issued = <<>>
    /\ dev_issued = <<>>
    /\ wire = [t \in Tasks |-> <<>>]

\* bincode of ArduinoCommand::Toggle
Toggle == <<1, 0, 0, 0>>
\* bincode of ArduinoCommand::Set{state: true}, Set{state: false}, Toggle, Check
Payloads == {<<0, 0, 0, 0, 1>>, <<0, 0, 0, 0, 0>>, Toggle, <<2, 0, 0, 0>>}

\* clients that toggle every object
ToggleEach == {[op |-> "Command", object_id |-> d, command |-> Toggle] : d \in Ids}
\* clients that send every command of ArduinoCommand to object 0
EveryCommand == {[op |-> "Command", object_id |-> 0, command |-> c] : c \in Payloads}

\* the sub-identifier the clients register their devices with
IdStrings == {<<"-", "1", "2">>}

\* clients that list the registries and register a device on every actionner id
ListAndRegister ==
    {[op |-> "ListDevice"], [op |-> "ListActionner"]}
    \cup {[op |-> "RegisterDevice", kind |-> "LED", actionner_id |-> a, id_in_actionner |-> s] :
             a \in Ids, s \in IdStrings}

\* clients with one remote: each invalid field is sent once, with the other
\* fields valid
Requests ==
    ListAndRegister
    \cup {[op |-> "RegisterDevice", kind |-> "lamp", actionner_id |-> 0,
           id_in_actionner |-> <<"5">>],
          [op |-> "RegisterDevice", kind |-> "LED", actionner_id |-> 0,
           id_in_actionner |-> <<"x">>]}
    \cup {[op |-> "RegisterActionner", protocol |-> "Arduino", remote |-> "r1"],
          [op |-> "RegisterActionner", protocol |-> "SSH", remote |-> "r1"],
          [op |-> "RegisterActionner", protocol |-> "bogus", remote |-> "r1"]}
    \cup ToggleEach
    \cup {[op |-> "Command", object_id |-> 0, command |-> <<9, 0, 0, 0>>]}

\* clients with valid requests only: actionners at every remote, every command
\* of ArduinoCommand
FrameRequests ==
    ListAndRegister
    \cup {[op |-> "RegisterActionner", protocol |-> "Arduino", remote |-> r] : r \in Remotes}
    \cup EveryCommand

Init == Fresh /\ recording = FALSE /\ clients = Requests

\* the same program, with the ids returned by successful adds recorded
InitHist == Fresh /\ recording = TRUE /\ clients = Requests

\* the same program, serving the clients of FrameRequests
InitFrames == Fresh /\ recording = FALSE /\ clients = FrameRequests

\* ---------------------------------------------------------------- Actionners
\* faulty variant: the dead descriptor is only logged, never removed
Actionners_open_unregister_skipped(data, id) == data

\* Actionners::open, Err arm of Handler::new: the descriptor is removed from
\* the persisted store
Actionners_open_unregister(data, id) == Restrict(data, (DOMAIN data) \ {id})

\* Actionners::open, the scan of the persisted descriptors in key order; st is
\* (actionner_data, actionners, next_id_to_assign) and how the scan ended
RECURSIVE Actionners_open_scan(_, _, _)
Actionners_open_scan(keys, st, outcome) ==
    IF keys = {} \/ st.status # "running" THEN st
    ELSE LET id == Min(keys)
             creator == st.data[id]
             next == IF st.next > id + 1 THEN st.next ELSE id + 1
             h == Handler_new(creator.protocol, creator.remote, outcome[id])
             st2 == CASE h.r = "Ok" ->
                           [st EXCEPT !.next = next, !.live = Put(@, id, h.handler)]
                      [] h.r \in {"hang", "panic"} ->
                           [st EXCEPT !.next = next, !.status = h.r]
                      [] OTHER ->
                           [st EXCEPT !.next = next,
                                      !.data = Actionners_open_unregister(@, id),
                                      !.failed = @ \cup {id}]
         IN  Actionners_open_scan(keys \ {id}, st2, outcome)

Actionners_open_result(outcome) ==
    Actionners_open_scan(DOMAIN actionner_data,
        [data |-> actionner_data, live |-> EmptyMap, next |-> 0,
         failed |-> {}, status |-> "running"],
        outcome)

\* Actionners::get_list
Actionners_get_list ==
    {[id |-> id, protocol |-> Handler_protocol(actionners[id])] : id \in DOMAIN actionners}

\* faulty variant: every id is taken for a known actionner, live handler or not
Actionners_get_known_all == 0..MaxId

\* Actionners::get_known
Actionners_get_known == {a.id : a \in Actionners_get_list}

\* faulty variant: the lookup answers for ids that have no live handler
Actionners_protocol_any(id) == [some |-> TRUE, v |-> "Arduino"]

\* Actionners::protocol
Actionners_protocol(id) ==
    IF id \in DOMAIN actionners
    THEN [some |-> TRUE, v |-> Handler_protocol(actionners[id])]
    ELSE [some |-> FALSE, v |-> "none"]

\* ---------------------------------------------------------------- Devices
\* faulty variant: the orphan test is dropped, every entry is kept
Devices_open_keeps_all(obj, known_actionners) == TRUE

\* Devices::open, the test that keeps an entry of the store
Devices_open_keeps(obj, known_actionners) == obj.actionner_id \in known_actionners

\* faulty variant: the counter is recovered from the entries that are kept
Devices_open_next_id_kept(store) ==
    LET kept == {k \in DOMAIN store :
                    Devices_open_keeps(store[k], DOMAIN actionners)}
    IN  IF kept = {} THEN 0 ELSE Max({k + 1 : k \in kept})

\* Devices::open, the counter after the scan: max(key + 1) over the scanned keys
Devices_open_next_id(store) ==
    IF DOMAIN store = {} THEN 0 ELSE Max({k + 1 : k \in DOMAIN store})

\* Devices::list
Devices_list == {<<id, devices[id]>> : id \in DOMAIN devices}

\* Devices::get
Devices_get(id) ==
    IF id \in DOMAIN devices THEN [some |-> TRUE, v |-> devices[id]]
    ELSE [some |-> FALSE, v |-> <<>>]

\* ---------------------------------------------------------------- main / HomeServer::open
\* HomeServer::open, first line: Actionners::open runs to completion
Actionners_open ==
    /\ phase = "down"
    /\ \E outcome \in [DOMAIN actionner_data -> CheckOutcomes] :
         LET st == Actionners_open_result(outcome)
         IN  /\ st.status = "running"
             /\ actionner_data' = st.data
             /\ actionners' = st.live
             /\ actionners_next_id' = st.next
             /\ last_open' = [done |-> FALSE,
                              act_scanned |-> DOMAIN actionner_data,
                              act_failed |-> st.failed,
                              dev_scanned |-> EmptyMap,
                              known |-> {}]
    /\ phase' = "act_opened"
    /\ UNCHANGED <<devices, devices_next_id, locks, tasks, history>>

\* Actionners::open does not return: a remote accepts the connection and never
\* answers the probe (the read has no timeout), or Handler::new panics
Actionners_open_stuck ==
    /\ phase = "down"
    /\ \E outcome \in [DOMAIN actionner_data -> CheckOutcomes] :
         LET st == Actionners_open_result(outcome)
         IN  /\ st.status # "running"
             /\ actionner_data' = st.data
             /\ phase' = IF st.status = "hang" THEN "open_hung" ELSE "down"
    /\ UNCHANGED <<actionners, actionners_next_id, devices, devices_next_id,
                   locks, tasks, last_open, history>>

\* HomeServer::open, second and third line: get_known, then Devices::open
Devices_open ==
    /\ phase = "act_opened"
    /\ LET known_actionners == Actionners_get_known
       IN  /\ devices' = Restrict(devices,
                  {id \in DOMAIN devices : Devices_open_keeps(devices[id], known_actionners)})
           /\ devices_next_id' = Devices_open_next_id(devices)
           /\ last_open' = [last_open EXCEPT !.done = TRUE,
                                             !.dev_scanned = devices,
                                             !.known = known_actionners]
    /\ phase' = "opened"
    /\ UNCHANGED <<actionner_data, actionners, actionners_next_id, locks, tasks, history>>

\* main: Server::builder().serve: requests are accepted from now on
Serve ==
    /\ phase = "opened"
    /\ phase' = "serving"
    /\ last_open' = NoOpen
    /\ UNCHANGED <<registries, locks, tasks, history>>

\* the process exits (no explicit close: every mutation is durable when made);
\* the persisted stores survive, the memory of the process does not
Close ==
    /\ phase # "down"
    /\ phase' = "down"
    /\ actionners' = EmptyMap
    /\ actionners_next_id' = 0
    /\ devices_next_id' = 0
    /\ actionners_lock' = NoTask
    /\ devices_lock' = NoTask
    /\ pc' = [t \in Tasks |-> "idle"]
    /\ req' = [t \in Tasks |-> NoReq]
    /\ local' = [t \in Tasks |-> NoLocal]
    /\ res' = [t \in Tasks |-> NoRes]
    /\ last_open' = NoOpen
    /\ wire' = [t \in Tasks |-> <<>>]
    /\ UNCHANGED <<actionner_data, devices, recording, clients, act_issued, dev_issued>>

\* ---------------------------------------------------------------- requests
\* tasks of operation op that have not allocated their id yet
Pending(op, pcs) == Cardinality({t \in Tasks : req[t].op = op /\ pc[t] \in pcs})

\* the bounds of the model: no add is started that would take a counter to
\* MaxId or a recorded history beyond MaxIssued
WithinBounds(r) ==
    CASE r.op = "RegisterActionner" ->
            /\ actionners_next_id + Pending(r.op, {"ra_add"}) < MaxId
            /\ Len(act_issued) + Pending(r.op, {"ra_add", "ra_new"}) < MaxIssued
      [] r.op = "RegisterDevice" ->
            /\ devices_next_id + Pending(r.op, {"rd_protocol", "rd_add"}) < MaxId
            /\ Len(dev_issued) + Pending(r.op, {"rd_protocol", "rd_add"}) < MaxIssued
      [] OTHER -> TRUE

\* the history after a successful add returned id
Record(issued, id) == IF recording THEN Append(issued, id) ELSE issued

\* the handler returns: its reply is ready, its locals are dropped
Finish(t, status, val) ==
    /\ pc' = [pc EXCEPT ![t] = "done"]
    /\ res' = [res EXCEPT ![t] = [op |-> req[t].op, status |-> status, val |-> val]]
    /\ local' = [local EXCEPT ![t] = NoLocal]
    /\ UNCHANGED req

\* the handler goes on to its next await point
Goto(t, label, loc) ==
    /\ pc' = [pc EXCEPT ![t] = label]
    /\ local' = [local EXCEPT ![t] = loc]
    /\ UNCHANGED <<req, res>>

\* a lock guard dropped by task t
Unlock(lock, t) == IF lock = t THEN NoTask ELSE lock

\* the transport hands a decoded request to a new task, which runs the handler
\* up to its first await: the parse of the kind (register_device) or of the
\* protocol (register_actionner), then the request for a registry lock
Receive(t) ==
    /\ phase = "serving"
    /\ pc[t] = "idle"
    /\ \E r \in clients :
         /\ WithinBounds(r)
         /\ CASE r.op = "ListDevice" ->
                   /\ pc' = [pc EXCEPT ![t] = "list_device"]
                   /\ req' = [req EXCEPT ![t] = r]
                   /\ UNCHANGED <<local, res>>
              [] r.op = "ListActionner" ->
                   /\ pc' = [pc EXCEPT ![t] = "list_actionner"]
                   /\ req' = [req EXCEPT ![t] = r]
                   /\ UNCHANGED <<local, res>>
              [] r.op = "RegisterDevice" ->
                   IF ObjectKind_from_str(r.kind).ok
                   THEN /\ pc' = [pc EXCEPT ![t] = "rd_protocol"]
                        /\ req' = [req EXCEPT ![t] = r]
                        /\ UNCHANGED <<local, res>>
                   ELSE /\ pc' = [pc EXCEPT ![t] = "done"]
                        /\ res' = [res EXCEPT ![t] = [op |-> r.op,
                               status |-> "InvalidArgument", val |-> "invalid category"]]
                        /\ req' = [req EXCEPT ![t] = r]
                        /\ UNCHANGED local
              [] r.op = "RegisterActionner" ->
                   IF Protocol_from_str(r.protocol).ok
                   THEN /\ pc' = [pc EXCEPT ![t] = "ra_add"]
                        /\ req' = [req EXCEPT ![t] = r]
                        /\ UNCHANGED <<local, res>>
                   ELSE /\ pc' = [pc EXCEPT ![t] = "done"]
                        /\ res' = [res EXCEPT ![t] = [op |-> r.op,
                               status |-> "InvalidArgument", val |-> [add |-> "not called"]]]
                        /\ req' = [req EXCEPT ![t] = r]
                        /\ UNCHANGED local
              [] OTHER ->
                   /\ pc' = [pc EXCEPT ![t] = "command"]
                   /\ req' = [req EXCEPT ![t] = r]
                   /\ UNCHANGED <<local, res>>
    /\ UNCHANGED <<phase, registries, locks, last_open, history>>

\* the reply (or the dropped connection of a panicked task) leaves the server
Reply(t) ==
    /\ pc[t] = "done"
    /\ pc' = [pc EXCEPT ![t] = "idle"]
    /\ res' = [res EXCEPT ![t] = NoRes]
    /\ wire' = [wire EXCEPT ![t] = <<>>]
    /\ req' = [req EXCEPT ![t] = NoReq]
    /\ UNCHANGED <<phase, registries, locks, local, last_open,
                   recording, clients, act_issued, dev_issued>>

\* ---------------------------------------------------------------- list_device
list_device(t) ==
    /\ pc[t] = "list_device"
    /\ devices_lock = NoTask
    /\ Finish(t, "Ok", Devices_list)
    /\ UNCHANGED <<phase, registries, locks, last_open, history>>

\* ---------------------------------------------------------------- list_actionner
list_actionner(t) ==
    /\ pc[t] = "list_actionner"
    /\ actionners_lock = NoTask
    /\ Finish(t, "Ok", Actionners_get_list)
    /\ UNCHANGED <<phase, registries, locks, last_open, history>>

\* ---------------------------------------------------------------- register_device
\* faulty variant: the guard is bound to a name and lives to the end of the handler
register_device_guard_kept(t) == t

\* the Actionner lock once `let protocol = match self.actionners.lock()...;` ends
register_device_guard_after_protocol(t) == NoTask

\* self.actionners.lock().await.protocol(..), then the parse of id_in_actionner
register_device_protocol(t) ==
    /\ pc[t] = "rd_protocol"
    /\ actionners_lock = NoTask
    /\ LET protocol == Actionners_protocol(req[t].actionner_id)
           id == parse_i8(req[t].id_in_actionner)
       IN  CASE ~protocol.some ->
                  /\ Finish(t, "NotFound", "actionner not found")
                  /\ UNCHANGED actionners_lock
             [] protocol.some /\ protocol.v # "Arduino" ->
                  /\ Finish(t, "panic", "unimplemented")
                  /\ UNCHANGED actionners_lock
             [] protocol.some /\ protocol.v = "Arduino" /\ ~id.ok ->
                  /\ Finish(t, "InvalidArgument", "invalid id for protocol")
                  /\ UNCHANGED actionners_lock
             [] OTHER ->
                  /\ Goto(t, "rd_add",
                          [NoLocal EXCEPT !.obj = [variant |-> "Arduino", v |-> id.v]])
                  /\ actionners_lock' = register_device_guard_after_protocol(t)
    /\ UNCHANGED <<phase, registries, devices_lock, last_open, history>>

\* faulty variant: the counter is not incremented
Devices_add_same_id(kind, actionner_id, id_in_actionner) ==
    LET new_obj == [kind |-> kind, actionner_id |-> actionner_id,
                    id_in_actionner |-> id_in_actionner]
        id == devices_next_id
    IN  [id |-> id, next |-> devices_next_id, store |-> Put(devices, id, new_obj)]

\* Devices::add: the registry after the add and the id it returns
Devices_add(kind, actionner_id, id_in_actionner) ==
    LET new_obj == [kind |-> kind, actionner_id |-> actionner_id,
                    id_in_actionner |-> id_in_actionner]
        id == devices_next_id
    IN  [id |-> id, next |-> devices_next_id + 1, store |-> Put(devices, id, new_obj)]

\* self.devices.lock().await.add(..)
register_device_add(t) ==
    /\ pc[t] = "rd_add"
    /\ devices_lock = NoTask
    /\ LET r == Devices_add(ObjectKind_from_str(req[t].kind).v, req[t].actionner_id,
                            local[t].obj)
       IN  /\ devices' = r.store
           /\ devices_next_id' = r.next
           /\ dev_issued' = Record(dev_issued, r.id)
           /\ Finish(t, "Ok", r.id)
    /\ actionners_lock' = Unlock(actionners_lock, t)
    /\ UNCHANGED <<phase, actionner_data, actionners, actionners_next_id, devices_lock,
                   last_open, recording, clients, act_issued, wire>>

\* ---------------------------------------------------------------- register_actionner
\* self.actionners.lock().await, then Actionners::add up to Handler::new(..).await:
\* the id is taken and the counter incremented before the handler is created
Actionners_add_begin(t) ==
    /\ pc[t] = "ra_add"
    /\ actionners_lock = NoTask
    /\ actionners_lock' = t
    /\ actionners_next_id' = actionners_next_id + 1
    /\ Goto(t, "ra_new", [NoLocal EXCEPT !.id = actionners_next_id])
    /\ UNCHANGED <<phase, actionner_data, actionners, devices, devices_next_id,
                   devices_lock, last_open, history>>

\* faulty variant: the descriptor is persisted before the handler is created
Actionners_add_data_early(data, id, ser_data, h) == Put(data, id, ser_data)

\* Actionners::add after Handler::new: `?` returns before the two inserts
Actionners_add_data(data, id, ser_data, h) ==
    IF h.r = "Ok" THEN Put(data, id, ser_data) ELSE data

\* faulty variant: the handler is created but never put in the live map
Actionners_add_live_skipped(live, id, h) == live

\* Actionners::add, the insert in the live map
Actionners_add_live(live, id, h) ==
    IF h.r = "Ok" THEN Put(live, id, h.handler) ELSE live

\* register_actionner: the status chosen for the result of Actionners::add
register_actionner_status(r) ==
    CASE r = "Ok" -> "Ok"
      [] r = "IoError" -> "Aborted"
      [] r = "InvalidAddress" -> "InvalidArgument"
      [] r = "Internal" -> "Internal"
      [] r = "panic" -> "panic"
      [] OTHER -> "Internal"

\* Handler::new(..).await returns (or never does), the rest of Actionners::add
\* and the match of register_actionner; the lock guard lives to the end of the match
Actionners_add_end(t) ==
    /\ pc[t] = "ra_new"
    /\ \E outcome \in CheckOutcomes :
         LET protocol == Protocol_from_str(req[t].protocol).v
             data == [protocol |-> protocol, remote |-> req[t].remote]
             id == local[t].id
             h == Handler_new(data.protocol, data.remote, outcome)
         IN  /\ actionner_data' = Actionners_add_data(actionner_data, id, data, h)
             /\ actionners' = Actionners_add_live(actionners, id, h)
             /\ IF h.r = "hang"
                THEN /\ Goto(t, "ra_hung", local[t])
                     /\ UNCHANGED <<actionners_lock, act_issued, wire>>
                ELSE /\ Finish(t, register_actionner_status(h.r),
                                IF h.r = "Ok" THEN [add |-> h.r, id |-> id] ELSE [add |-> h.r])
                     /\ actionners_lock' = NoTask
                     /\ act_issued' = IF h.r = "Ok" THEN Record(act_issued, id)
                                      ELSE act_issued
                     /\ wire' = IF h.r = "panic" THEN wire
                                ELSE [wire EXCEPT ![t] = Append(@,
                                         ArduinoHandler_check_wire(data.remote, outcome))]
    /\ UNCHANGED <<phase, actionners_next_id, devices, devices_next_id, devices_lock,
                   last_open, recording, clients, dev_issued>>

\* ---------------------------------------------------------------- command
\* self.devices.lock().await.get(..): the guard is a temporary of the match
\* scrutinee, so in the Ok(Some(obj)) arm it is still held
command_get(t) ==
    /\ pc[t] = "command"
    /\ devices_lock = NoTask
    /\ LET d == Devices_get(req[t].object_id)
       IN  IF d.some
           THEN /\ devices_lock' = t
                /\ Goto(t, "cmd_act", [NoLocal EXCEPT !.obj = d.v])
           ELSE /\ Finish(t, "NotFound", "device not found")
                /\ UNCHANGED devices_lock
    /\ UNCHANGED <<phase, registries, actionners_lock, last_open, history>>

\* faulty variant: the error of the handler is dropped and success is reported
command_status_swallowed(r) ==
    CASE r = "panic" -> "panic"
      [] OTHER -> "Ok"

\* command: the status chosen for the result of Actionners::act; every
\* HandlerError is reported as Internal
command_status(r) ==
    CASE r = "Ok" -> "Ok"
      [] r = "panic" -> "panic"
      [] OTHER -> "Internal"

\* Handler::command before the send: the arms that return without any I/O
Handler_command_decode(handler, command, object) ==
    IF handler.protocol # "Arduino" THEN [r |-> "panic", v |-> "none"]
    ELSE IF object.id_in_actionner.variant # "Arduino" THEN [r |-> "InvalidId", v |-> "none"]
    ELSE IF ~deserialize_command(command).ok THEN [r |-> "InvalidCommand", v |-> "none"]
    ELSE [r |-> "send", v |-> deserialize_command(command).v]

\* self.actionners.lock().await.act(..) up to the send of the handler
Actionners_act_begin(t) ==
    /\ pc[t] = "cmd_act"
    /\ actionners_lock = NoTask
    /\ LET object == local[t].obj
       IN  IF object.actionner_id \notin DOMAIN actionners
           THEN /\ Finish(t, "Ok", "")
                /\ devices_lock' = Unlock(devices_lock, t)
                /\ UNCHANGED actionners_lock
           ELSE LET d == Handler_command_decode(actionners[object.actionner_id],
                                                req[t].command, object)
                IN  IF d.r = "send"
                    THEN /\ actionners_lock' = t
                         /\ Goto(t, "cmd_send", [local[t] EXCEPT !.command = d.v])
                         /\ UNCHANGED devices_lock
                    ELSE /\ Finish(t, command_status(d.r), "")
                         /\ devices_lock' = Unlock(devices_lock, t)
                         /\ UNCHANGED actionners_lock
    /\ UNCHANGED <<phase, registries, last_open, history>>

\* ArduinoHandler::send: connect and write_all, neither with a timeout
ArduinoHandler_send(t) ==
    /\ pc[t] = "cmd_send"
    /\ \E outcome \in SendOutcomes :
         LET arduino == actionners[local[t].obj.actionner_id]
             connection == ArduinoHandler_send_wire(arduino.address, local[t].command,
                                                    local[t].obj.id_in_actionner.v, outcome)
         IN  CASE outcome = "ok" ->
                    /\ Finish(t, command_status("Ok"), "")
                    /\ actionners_lock' = Unlock(actionners_lock, t)
                    /\ devices_lock' = Unlock(devices_lock, t)
                    /\ wire' = [wire EXCEPT ![t] = Append(@, connection)]
               [] outcome = "io" ->
                    /\ Finish(t, command_status("IoError"), "")
                    /\ actionners_lock' = Unlock(actionners_lock, t)
                    /\ devices_lock' = Unlock(devices_lock, t)
                    /\ wire' = [wire EXCEPT ![t] = Append(@, connection)]
               [] OTHER ->
                    /\ Goto(t, "cmd_hung", local[t])
                    /\ UNCHANGED <<locks, wire>>
    /\ UNCHANGED <<phase, registries, last_open, recording, clients, act_issued, dev_issued>>

\* ---------------------------------------------------------------- specification
Next ==
    \/ Actionners_open
    \/ Actionners_open_stuck
    \/ Devices_open
    \/ Serve
    \/ Close
    \/ \E t \in Tasks : Receive(t)
    \/ \E t \in Tasks : Reply(t)
    \/ \E t \in Tasks : list_device(t)
    \/ \E t \in Tasks : list_actionner(t)
    \/ \E t \in Tasks : register_device_protocol(t)
    \/ \E t \in Tasks : register_device_add(t)
    \/ \E t \in Tasks : Actionners_add_begin(t)
    \/ \E t \in Tasks : Actionners_add_end(t)
    \/ \E t \in Tasks : command_get(t)
    \/ \E t \in Tasks : Actionners_act_begin(t)
    \/ \E t \in Tasks : ArduinoHandler_send(t)

Spec == Init /\ [][Next]_vars

HistSpec == InitHist /\ [][Next]_vars

FrameSpec == InitFrames /\ [][Next]_vars

TypeOK ==
    /\ phase \in {"down", "act_opened", "opened", "serving", "open_hung"}
    /\ DOMAIN actionner_data \subseteq 0..MaxId
    /\ DOMAIN actionners \subseteq DOMAIN actionner_data
    /\ actionners_lock \in Tasks \cup {NoTask}
    /\ devices_lock \in Tasks \cup {NoTask}
    /\ actionners_next_id \in 0..MaxId
    /\ devices_next_id \in 0..MaxId
    /\ Len(act_issued) <= MaxIssued
    /\ Len(dev_issued) <= MaxIssued

\* ---------------------------------------------------------------- claims
StrictlyIncreasing(issued) ==
    \A i, j \in 1..Len(issued) : i < j => issued[i] < issued[j]

\* C1: for each registry taken separately, the ids returned by successful adds
\* are strictly increasing over the whole lifetime of the persisted store (failed
\* adds, startup evictions and close/reopen cycles included), so no id is ever
\* returned twice.
C1_IdsNeverReused ==
    StrictlyIncreasing(act_issued) /\ StrictlyIncreasing(dev_issued)

\* C2: for each registry, the n-th successful add over the lifetime of the
\* store returns n - 1, whatever failed adds happened in between.
C2_IdIsCountMinusOne ==
    /\ \A n \in 1..Len(act_issued) : act_issued[n] = n - 1
    /\ \A n \in 1..Len(dev_issued) : dev_issued[n] = n - 1

\* C3: a RegisterActionner request whose handler construction fails creates no
\* record: from the moment Actionners::add starts to the failed return, the
\* persisted actionner store, the live map and what ListActionner would return
\* are unchanged.
C3_FailedRegistrationCreatesNothing ==
    [][\A t \in Tasks :
          ( /\ pc[t] = "ra_new" \/ pc'[t] = "ra_new"
            /\ phase' = "serving"
            /\ ~(pc'[t] = "done" /\ res'[t].status = "Ok") )
          => /\ actionner_data' = actionner_data
             /\ actionners' = actionners
             /\ Actionners_get_list' = Actionners_get_list]_vars

\* a registration was rejected for a failed handshake while an actionner exists
C3_Witness ==
    \E t \in Tasks :
        /\ pc[t] = "done"
        /\ res[t].op = "RegisterActionner"
        /\ res[t].status \in {"Aborted", "Internal"}
        /\ DOMAIN actionner_data # {}
        /\ DOMAIN actionners = DOMAIN actionner_data

\* C4: a RegisterActionner request whose remote fails the liveness handshake,
\* because it is unreachable (IoError) or because it answers something other
\* than "yes" (Internal), is answered with the status Aborted.
C4_HandshakeFailureIsAborted ==
    \A t \in Tasks :
        ( /\ pc[t] = "done"
          /\ res[t].op = "RegisterActionner"
          /\ res[t].val.add \in {"IoError", "Internal"} )
        => res[t].status = "Aborted"

\* C5: after Actionners::open completes, every descriptor whose handler creation
\* failed during that open is absent from get_list/get_known and from the
\* persisted store; what the open leaves is exactly the rest of what it scanned.
C5_DeadActionnersEvicted ==
    phase \in {"act_opened", "opened"} =>
        /\ \A id \in last_open.act_failed :
              /\ id \notin DOMAIN actionner_data
              /\ id \notin Actionners_get_known
              /\ \A a \in Actionners_get_list : a.id # id
        /\ DOMAIN actionner_data = last_open.act_scanned \ last_open.act_failed
        /\ Actionners_get_known = DOMAIN actionner_data

\* an open evicted a dead actionner and revived another
C5_Witness ==
    /\ phase = "act_opened"
    /\ last_open.act_failed # {}
    /\ Actionners_get_known # {}

\* C6: after Devices::open(root, known) completes, every device whose
\* actionner_id is not in known is absent from list() and from the persisted
\* store, every other device is kept unchanged, and nothing else is in the store.
C6_OrphanDevicesEvicted ==
    (phase = "opened" /\ last_open.done) =>
        /\ \A id \in DOMAIN last_open.dev_scanned :
              IF last_open.dev_scanned[id].actionner_id \in last_open.known
              THEN /\ id \in DOMAIN devices
                   /\ devices[id] = last_open.dev_scanned[id]
                   /\ <<id, last_open.dev_scanned[id]>> \in Devices_list
              ELSE /\ id \notin DOMAIN devices
                   /\ \A e \in Devices_list : e[1] # id
        /\ DOMAIN devices \subseteq DOMAIN last_open.dev_scanned

\* an open evicted an orphan device and kept another device
C6_Witness ==
    /\ phase = "opened"
    /\ last_open.done
    /\ \E id \in DOMAIN last_open.dev_scanned :
          last_open.dev_scanned[id].actionner_id \notin last_open.known
    /\ \E id \in DOMAIN last_open.dev_scanned :
          last_open.dev_scanned[id].actionner_id \in last_open.known

\* C7: no request task ever holds the Device Registry lock and the Actionner
\* Registry lock at the same time, and in Command the Device lock is released
\* before the Actionner lock is requested.
C7_LocksNeverNested ==
    \A t \in Tasks :
        /\ ~(devices_lock = t /\ actionners_lock = t)
        /\ pc[t] = "cmd_act" => devices_lock # t

WaitsForDevices(t) == pc[t] \in {"list_device", "rd_add", "command"}
WaitsForActionners(t) == pc[t] \in {"list_actionner", "rd_protocol", "ra_add", "cmd_act"}

\* C8: no reachable state is a lock-ordering deadlock: there is never a cycle of
\* tasks each holding one registry lock and waiting for the other.
C8_NoLockOrderCycle ==
    ~ \E t1, t2 \in Tasks :
         /\ t1 # t2
         /\ devices_lock = t1 /\ WaitsForActionners(t1)
         /\ actionners_lock = t2 /\ WaitsForDevices(t2)

\* the two locks are held by two different tasks, and the holder of the Device
\* lock (a Command) waits for the Actionner lock, held by a registration whose
\* handshake is in flight
C8_Witness ==
    \E t1, t2 \in Tasks :
        /\ t1 # t2
        /\ devices_lock = t1 /\ WaitsForActionners(t1)
        /\ actionners_lock = t2 /\ pc[t2] = "ra_new"

\* C9: the Actionner Registry lock is held only for the handler lookup, not
\* during the connection and write to the remote (which is what lets two
\* Commands to two different actionners have their sends in flight together):
\* a task whose send is in flight does not hold the Actionner lock.
C9_SendOutsideActionnerLock ==
    \A t \in Tasks : pc[t] = "cmd_send" => actionners_lock # t

\* ---------------------------------------------------------------- fairness
\* the steps of the handler run by task t (the runtime polls every ready task;
\* the tokio mutex hands the lock to its waiters in turn)
Step(t) ==
    \/ Reply(t)
    \/ list_device(t)
    \/ list_actionner(t)
    \/ register_device_protocol(t)
    \/ register_device_add(t)
    \/ Actionners_add_begin(t)
    \/ Actionners_add_end(t)
    \/ command_get(t)
    \/ Actionners_act_begin(t)
    \/ ArduinoHandler_send(t)

FairSpec == Init /\ [][Next]_vars /\ \A t \in Tasks : SF_vars(Step(t))

InFlight(t) ==
    pc[t] \in {"list_device", "list_actionner", "rd_protocol", "rd_add",
               "command", "cmd_act", "cmd_send"}

\* C10: while one Command task is suspended forever on a hung remote, a request
\* served by another task still eventually completes (or hangs on its own
\* remote, or the process exits).
C10_HungRemoteHangsOnlyItsTask ==
    \A h, t \in Tasks :
        (h # t /\ pc[h] = "cmd_hung" /\ InFlight(t))
            ~> (pc[t] \in {"done", "cmd_hung"} \/ phase # "serving")

\* ---------------------------------------------------------------- handshake and frames
\* C11: the creation of an Arduino handler always returns, success or error,
\* whatever the remote does: no RegisterActionner task and no Actionners::open
\* is ever left waiting for a probe reply that never comes.
C11_HandshakeAlwaysReturns ==
    /\ phase # "open_hung"
    /\ \A t \in Tasks : pc[t] # "ra_hung"

\* the frame the protocol prescribes for a payload and the sub-identifier n
ExpectedFrame(payload, n) ==
    CASE payload = <<0, 0, 0, 0, 1>> -> <<"o", "n", " ">> \o format_i8(n) \o <<"\n">>
      [] payload = <<0, 0, 0, 0, 0>> -> <<"o", "f", "f", " ">> \o format_i8(n) \o <<"\n">>
      [] payload = <<1, 0, 0, 0>> -> <<"t", "o", "g", " ">> \o format_i8(n) \o <<"\n">>
      [] payload = <<2, 0, 0, 0>> -> <<"a", "r", "d", "\n">>
      [] OTHER -> <<>>

\* C12: a Command that succeeds has made exactly one connection, to the remote
\* address persisted for the actionner of the device, has written exactly one
\* frame on it ("on n\n", "off n\n", "tog n\n" or "ard\n" for Set true, Set
\* false, Toggle and Check, n the Arduino sub-identifier of the device) and has
\* read nothing back.
C12_CommandWritesOneFrame ==
    [][\A t \in Tasks :
          (pc[t] # "done" /\ pc'[t] = "done" /\ req[t].op = "Command"
             /\ res'[t].status = "Ok")
          => /\ req[t].object_id \in DOMAIN devices
             /\ wire[t] = <<>>
             /\ LET obj == devices[req[t].object_id]
                IN  /\ obj.actionner_id \in DOMAIN actionner_data
                    /\ wire'[t] =
                         <<[address |-> actionner_data[obj.actionner_id].remote,
                            io |-> "ok",
                            written |-> <<ExpectedFrame(req[t].command,
                                                        obj.id_in_actionner.v)>>,
                            reads |-> 0,
                            read |-> <<>>]>>]_vars

C12_Witness ==
    \E t \in Tasks :
        /\ pc[t] = "done" /\ res[t].op = "Command" /\ res[t].status = "Ok"
        /\ Len(wire[t]) = 1
        /\ wire[t][1].address = "r2"
        /\ wire[t][1].written = <<(<<"o", "f", "f", " ", "-", "1", "2", "\n">>)>>

\* ---------------------------------------------------------------- statuses
\* C13: RegisterDevice checks, in this order: an unparsable kind is answered
\* InvalidArgument; an actionner_id that is not live is answered NotFound; a
\* sub-identifier that does not parse as an i8 is answered InvalidArgument. None
\* of these steps changes the device store or its counter; a request that passes
\* the three checks adds exactly one record, under the id it returns.
C13_RegisterDeviceChecksInOrder ==
    [][\A t \in Tasks :
          /\ (pc[t] = "idle" /\ pc'[t] # "idle" /\ req'[t].op = "RegisterDevice")
             => /\ UNCHANGED <<devices, devices_next_id>>
                /\ IF to_lowercase(req'[t].kind) = "led"
                   THEN pc'[t] = "rd_protocol"
                   ELSE pc'[t] = "done" /\ res'[t].status = "InvalidArgument"
          /\ (pc[t] = "rd_protocol" /\ pc'[t] # "rd_protocol" /\ phase' = "serving")
             => /\ UNCHANGED <<devices, devices_next_id>>
                /\ IF req[t].actionner_id \notin DOMAIN actionners
                   THEN pc'[t] = "done" /\ res'[t].status = "NotFound"
                   ELSE IF ~parse_i8(req[t].id_in_actionner).ok
                   THEN pc'[t] = "done" /\ res'[t].status = "InvalidArgument"
                   ELSE pc'[t] = "rd_add"
          /\ (pc[t] = "rd_add" /\ pc'[t] # "rd_add" /\ phase' = "serving")
             => /\ pc'[t] = "done"
                /\ res'[t].status = "Ok"
                /\ res'[t].val \notin DOMAIN devices
                /\ devices' = Put(devices, res'[t].val,
                       [kind |-> "LED", actionner_id |-> req[t].actionner_id,
                        id_in_actionner |->
                            [variant |-> "Arduino",
                             v |-> parse_i8(req[t].id_in_actionner).v]])]_vars

\* a request with an unparsable sub-identifier for an actionner that is not
\* live is answered NotFound, while another request has registered a device
C13_Witness ==
    \E t, u \in Tasks :
        /\ pc[t] = "done" /\ req[t].op = "RegisterDevice"
        /\ req[t].id_in_actionner = <<"x">> /\ res[t].status = "NotFound"
        /\ pc[u] = "done" /\ res[u].op = "RegisterDevice" /\ res[u].status = "Ok"
        /\ res[u].val \in DOMAIN devices

\* the handler of a Command failed: its payload is no ArduinoCommand, the
\* sub-identifier is of another protocol, or the connection or the write failed
HandlerFailed(t) ==
    /\ req[t].object_id \in DOMAIN devices
    /\ LET obj == devices[req[t].object_id]
       IN  /\ obj.actionner_id \in DOMAIN actionners
           /\ \/ obj.id_in_actionner.variant # "Arduino"
              \/ req[t].command \notin Payloads
              \/ wire'[t] # <<>> /\ wire'[t][1].io = "err"

\* C14: a Command is answered NotFound exactly when its device id is absent
\* from the device store, and Internal exactly when its handler failed
\* (undecodable payload, sub-identifier of another protocol, I/O failure of the
\* send); no step of a Command changes either registry.
C14_CommandStatuses ==
    [][\A t \in Tasks :
          (req[t].op = "Command" /\ pc'[t] # pc[t] /\ phase' = "serving")
          => /\ UNCHANGED registries
             /\ (pc[t] = "command" /\ req[t].object_id \notin DOMAIN devices)
                => pc'[t] = "done"
             /\ (pc[t] # "done" /\ pc'[t] = "done")
                => /\ res'[t].status = "NotFound"
                      <=> req[t].object_id \notin DOMAIN devices
                   /\ res'[t].status = "Internal" <=> HandlerFailed(t)
                   /\ res'[t].status \in {"NotFound", "Internal", "Ok"}]_vars

\* one Command answered Internal after its send failed, one answered NotFound
C14_Witness ==
    \E t, u \in Tasks :
        /\ pc[t] = "done" /\ res[t].op = "Command" /\ res[t].status = "Internal"
        /\ wire[t] # <<>> /\ wire[t][1].io = "err"
        /\ pc[u] = "done" /\ res[u].op = "Command" /\ res[u].status = "NotFound"

\* C15: a RegisterActionner for the protocol SSH ends in an explicit error
\* status, not in a crash of its task; no SSH descriptor is persisted, no SSH
\* handler is inserted, and the Actionner lock is free afterwards.
C15_SshFailsClosed ==
    /\ \A t \in Tasks :
          (pc[t] = "done" /\ req[t].op = "RegisterActionner"
             /\ to_lowercase(req[t].protocol) = "ssh")
          => /\ res[t].status \in {"InvalidArgument", "Internal", "Aborted", "Unimplemented"}
             /\ actionners_lock # t
    /\ \A id \in DOMAIN actionner_data : actionner_data[id].protocol # "SSH"
    /\ \A id \in DOMAIN actionners : actionners[id].protocol # "SSH"

\* the reply to the probe starts with the three bytes "yes"
StartsWithYes(bytes) ==
    /\ Len(bytes) >= 3
    /\ bytes[1] = "y" /\ bytes[2] = "e" /\ bytes[3] = "s"

\* C16: the creation of an Arduino handler succeeds exactly when the connection
\* and the I/O succeed and the first three bytes read back are "yes"; a
\* connection or I/O failure (or the connect timeout) gives IoError, a reply
\* that does not start with "yes" gives Internal.
C16_HandshakeOutcome ==
    \A t \in Tasks :
        (pc[t] = "done" /\ res[t].op = "RegisterActionner" /\ wire[t] # <<>>)
        => LET c == wire[t][1]
               yes == c.io = "ok" /\ StartsWithYes(c.read)
           IN  /\ res[t].val.add = "Ok" <=> yes
               /\ c.io = "err" => res[t].val.add = "IoError"
               /\ (c.io = "ok" /\ ~StartsWithYes(c.read)) => res[t].val.add = "Internal"
               /\ yes => /\ res[t].val.id \in DOMAIN actionners
                         /\ actionners[res[t].val.id].address = c.address

\* one handler accepted on "yes\n", one refused on a reply of only "ye"
C16_Witness ==
    \E t, u \in Tasks :
        /\ pc[t] = "done" /\ res[t].op = "RegisterActionner" /\ res[t].status = "Ok"
        /\ wire[t] # <<>> /\ wire[t][1].read = <<"y", "e", "s", "\n">>
        /\ pc[u] = "done" /\ res[u].op = "RegisterActionner"
        /\ res[u].val = [add |-> "Internal"]
        /\ wire[u] # <<>> /\ wire[u][1].read = <<"y", "e">>

\* ---------------------------------------------------------------- counters
\* C17: the two registries are independent: no step of RegisterActionner and no
\* Actionners::open changes the device store or its counter, no step of
\* RegisterDevice and no Devices::open changes the actionner store or its
\* counter; so the first actionner registered gets id 0 and the first device
\* registered gets id 0, whatever the other registry holds.
C17_IndependentCounters ==
    [][/\ \A t \in Tasks :
             (pc'[t] # pc[t] /\ phase' = "serving")
             => /\ req[t].op = "RegisterActionner"
                   => UNCHANGED <<devices, devices_next_id>>
                /\ req[t].op = "RegisterDevice"
                   => UNCHANGED <<actionner_data, actionners, actionners_next_id>>
       /\ phase = "down" => UNCHANGED <<devices, devices_next_id>>
       /\ (phase = "act_opened" /\ phase' = "opened")
          => UNCHANGED <<actionner_data, actionners, actionners_next_id>>
       /\ (act_issued = <<>> /\ act_issued' # <<>>) => act_issued'[1] = 0
       /\ (dev_issued = <<>> /\ dev_issued' # <<>>) => dev_issued'[1] = 0]_vars

\* the counter an open must recover from the keys it scanned
RecoveredCounter(keys) == IF keys = {} THEN 0 ELSE Max(keys) + 1

\* C18: when an open has returned, the counter of its registry is the largest
\* key that was in the store when the scan started, plus one (0 for an empty
\* store); the entries the same open deleted count too.
C18_OpenRecoversCounter ==
    /\ phase \in {"act_opened", "opened"}
       => actionners_next_id = RecoveredCounter(last_open.act_scanned)
    /\ phase = "opened"
       => devices_next_id = RecoveredCounter(DOMAIN last_open.dev_scanned)

\* both opens deleted the entry with the largest key of their store
C18_Witness ==
    /\ phase = "opened"
    /\ last_open.act_scanned # {}
    /\ Max(last_open.act_scanned) \in last_open.act_failed
    /\ DOMAIN last_open.dev_scanned # {}
    /\ Max(DOMAIN last_open.dev_scanned) \notin DOMAIN devices
    /\ DOMAIN devices # {}

\* C19: two registrations on the same registry whose replies are both pending
\* were given different ids, and each id holds the record of its own request.
C19_ConcurrentRegistrationsDistinct ==
    \A t, u \in Tasks :
        (t # u /\ pc[t] = "done" /\ pc[u] = "done"
           /\ res[t].status = "Ok" /\ res[u].status = "Ok")
        => /\ (res[t].op = "RegisterActionner" /\ res[u].op = "RegisterActionner")
              => /\ res[t].val.id # res[u].val.id
                 /\ {res[t].val.id, res[u].val.id} \subseteq DOMAIN actionner_data
                 /\ {res[t].val.id, res[u].val.id} \subseteq DOMAIN actionners
                 /\ actionner_data[res[t].val.id].remote = req[t].remote
                 /\ actionners[res[t].val.id].address = req[t].remote
           /\ (res[t].op = "RegisterDevice" /\ res[u].op = "RegisterDevice")
              => /\ res[t].val # res[u].val
                 /\ {res[t].val, res[u].val} \subseteq DOMAIN devices
                 /\ devices[res[t].val].actionner_id = req[t].actionner_id

\* two device registrations, for different actionners, both answered
C19_Witness ==
    \E t, u \in Tasks :
        /\ t # u /\ pc[t] = "done" /\ pc[u] = "done"
        /\ res[t].op = "RegisterDevice" /\ res[u].op = "RegisterDevice"
        /\ res[t].status = "Ok" /\ res[u].status = "Ok"
        /\ req[t].actionner_id # req[u].actionner_id

\* C20: once HomeServer::open has returned, every device of the device store is
\* bound to an actionner that has a live handler, and a Command that has found
\* its device always finds the handler (the None arm of act is never taken).
C20_DevicesBoundToLiveActionners ==
    /\ phase \in {"opened", "serving"}
       => \A id \in DOMAIN devices : devices[id].actionner_id \in DOMAIN actionners
    /\ \A t \in Tasks :
          pc[t] = "cmd_act" => local[t].obj.actionner_id \in DOMAIN actionners

\* a Command about to call act, while an id below the counter has no live handler
C20_Witness ==
    /\ phase = "serving"
    /\ \E t \in Tasks : pc[t] = "cmd_act"
    /\ DOMAIN actionners # {}
    /\ \E id \in 0..MaxId : id < actionners_next_id /\ id \notin DOMAIN actionners

\* ---------------------------------------------------------------- registries
\* C21: once Actionners::open has returned, whenever the Actionner lock is free
\* the ids of the persisted actionner store are exactly the ids of the live
\* map, and get_known and get_list return exactly that set of ids.
C21_StoreMatchesLiveMap ==
    (phase \in {"act_opened", "opened", "serving"} /\ actionners_lock = NoTask)
    => /\ DOMAIN actionner_data = DOMAIN actionners
       /\ Actionners_get_known = DOMAIN actionner_data
       /\ {a.id : a \in Actionners_get_list} = DOMAIN actionner_data
       /\ Cardinality(Actionners_get_list) = Cardinality(DOMAIN actionner_data)

\* the lock is free, two actionners are registered and a ListActionner reply
\* listing both is pending
C21_Witness ==
    /\ phase = "serving"
    /\ actionners_lock = NoTask
    /\ Cardinality(DOMAIN actionner_data) = 2
    /\ \E t \in Tasks :
          /\ pc[t] = "done" /\ res[t].op = "ListActionner"
          /\ {a.id : a \in res[t].val} = DOMAIN actionner_data

\* C22: a device is never re-bound: while a device stays in the device store,
\* its record does not change and the descriptor stored under its actionner_id
\* is never replaced and never comes back once removed; and when a Command has
\* resolved its device to a live handler, that handler is the one created from
\* that descriptor. So the handler is always the one of the registration the
\* device was bound to, also after actionner ids are allocated again.
C22_DeviceNeverRebound ==
    [][/\ \A d \in (DOMAIN devices) \cap (DOMAIN devices') :
             LET a == devices[d].actionner_id
             IN  /\ devices'[d] = devices[d]
                 /\ a \in DOMAIN actionner_data'
                    => /\ a \in DOMAIN actionner_data
                       /\ actionner_data'[a] = actionner_data[a]
       /\ \A t \in Tasks :
             pc'[t] = "cmd_send"
             => LET a == local'[t].obj.actionner_id
                IN  /\ local'[t].obj = devices'[req'[t].object_id]
                    /\ a \in DOMAIN actionner_data'
                    /\ actionners'[a].address = actionner_data'[a].remote
                    /\ actionners'[a].protocol = actionner_data'[a].protocol]_vars

\* a Command has resolved its device to the handler of the actionner at "r2",
\* while another actionner, at "r1", is live
C22_Witness ==
    \E t \in Tasks :
        /\ pc[t] = "cmd_send"
        /\ LET a == local[t].obj.actionner_id
           IN  /\ actionners[a].address = "r2"
               /\ \E b \in DOMAIN actionners : b # a /\ actionners[b].address = "r1"

\* C23: every live handler and every persisted descriptor has the protocol
\* Arduino and every stored device has an Arduino sub-identifier; so no
\* RegisterDevice and no Command ever reaches an unimplemented SSH arm, and
\* Handler::command never returns InvalidId.
C23_OnlyArduinoReachable ==
    /\ \A id \in DOMAIN actionners : Handler_protocol(actionners[id]) = "Arduino"
    /\ \A id \in DOMAIN actionner_data : actionner_data[id].protocol = "Arduino"
    /\ \A d \in DOMAIN devices : devices[d].id_in_actionner.variant = "Arduino"
    /\ \A t \in Tasks :
          /\ (pc[t] = "done" /\ res[t].op \in {"RegisterDevice", "Command"})
             => res[t].status # "panic"
          /\ (pc[t] = "cmd_act" /\ local[t].obj.actionner_id \in DOMAIN actionners)
             => Handler_command_decode(actionners[local[t].obj.actionner_id],
                                       req[t].command, local[t].obj).r
                    \notin {"panic", "InvalidId"}

\* a registration for SSH has been attempted and has ended, while a Command on
\* a stored device is about to call its handler
C23_Witness ==
    \E t, u \in Tasks :
        /\ pc[t] = "done" /\ req[t].op = "RegisterActionner" /\ req[t].protocol = "SSH"
        /\ pc[u] = "cmd_act"
        /\ local[u].obj.actionner_id \in DOMAIN actionners

====
